---- MODULE Spec2Model ----
(***************************************************************************)
(* Model of the AI image generator web application: the shared             *)
(* generation_status record of app.py, the request handler api_generate,   *)
(* the background thread generate_image_background, the prompt enhancer    *)
(* of gigachat_enhancer.py and the provider dispatch of                    *)
(* image_generator_core.py.                                                *)
(*                                                                         *)
(* Python strings that the code inspects character by character (prompts,  *)
(* replies, style suffixes) are sequences of one-character strings.        *)
(* Python None is the record None; a value v that may be None is Some(v).  *)
(***************************************************************************)
EXTENDS Integers, Sequences, FiniteSets, TLC

\* ------------------------------------------------------------------------
\* Bounds of the model
\* ------------------------------------------------------------------------

\* Number of requests the server handles at the same time (one handler
\* thread plus the background thread it starts, per slot).
MaxThreads == 2

\* ------------------------------------------------------------------------
\* Python values
\* ------------------------------------------------------------------------

None == [some |-> FALSE]

Some(v) == [some |-> TRUE, val |-> v]

\* Characters str.strip() removes.
Whitespace == {" ", "\n", "\t"}

\* str.strip(): drop leading and trailing whitespace.
RECURSIVE LStrip(_)
LStrip(s) ==
  IF s # <<>> /\ Head(s) \in Whitespace THEN LStrip(Tail(s)) ELSE s

RECURSIVE RStrip(_)
RStrip(s) ==
  IF s # <<>> /\ s[Len(s)] \in Whitespace
  THEN RStrip(SubSeq(s, 1, Len(s) - 1))
  ELSE s

Strip(s) == RStrip(LStrip(s))

\* s[:n]
Prefix(s, n) == SubSeq(s, 1, IF Len(s) < n THEN Len(s) ELSE n)

\* s.rsplit(' ', 1)[0]: what precedes the last space, or s when it has none.
RSplitFirst(s) ==
  LET spaces == {i \in 1..Len(s) : s[i] = " "}
  IN  IF spaces = {} THEN s
      ELSE SubSeq(s, 1, (CHOOSE i \in spaces : \A j \in spaces : j <= i) - 1)

\* ------------------------------------------------------------------------
\* app.py: the style catalogue
\* ------------------------------------------------------------------------

STYLES ==
  [none |-> <<>>,
   photorealistic |->
      <<"p", "h", "o", "t", "o", "r", "e", "a", "l", "i", "s", "t", "i",
      "c", ",", " ", "h", "i", "g", "h", " ", "d", "e", "t", "a", "i",
      "l", ",", " ", "p", "r", "o", "f", "e", "s", "s", "i", "o", "n",
      "a", "l", " ", "p", "h", "o", "t", "o", "g", "r", "a", "p", "h",
      "y", ",", " ", "s", "t", "u", "d", "i", "o", " ", "l", "i", "g",
      "h", "t", "i", "n", "g">>,
   anime |->
      <<"a", "n", "i", "m", "e", " ", "s", "t", "y", "l", "e", ",", " ",
      "d", "e", "t", "a", "i", "l", "e", "d", " ", "a", "n", "i", "m",
      "e", " ", "a", "r", "t", ",", " ", "v", "i", "b", "r", "a", "n",
      "t", " ", "c", "o", "l", "o", "r", "s", ",", " ", "m", "a", "n",
      "g", "a", " ", "i", "l", "l", "u", "s", "t", "r", "a", "t", "i",
      "o", "n">>,
   watercolor |->
      <<"w", "a", "t", "e", "r", "c", "o", "l", "o", "r", " ", "p", "a",
      "i", "n", "t", "i", "n", "g", ",", " ", "s", "o", "f", "t", " ",
      "c", "o", "l", "o", "r", "s", ",", " ", "a", "r", "t", "i", "s",
      "t", "i", "c", ",", " ", "t", "r", "a", "d", "i", "t", "i", "o",
      "n", "a", "l", " ", "a", "r", "t">>,
   cyberpunk |->
      <<"c", "y", "b", "e", "r", "p", "u", "n", "k", " ", "s", "t", "y",
      "l", "e", ",", " ", "n", "e", "o", "n", " ", "l", "i", "g", "h",
      "t", "s", ",", " ", "f", "u", "t", "u", "r", "i", "s", "t", "i",
      "c", ",", " ", "d", "a", "r", "k", " ", "a", "t", "m", "o", "s",
      "p", "h", "e", "r", "e">>,
   pixel |->
      <<"p", "i", "x", "e", "l", " ", "a", "r", "t", ",", " ", "8", "-",
      "b", "i", "t", " ", "s", "t", "y", "l", "e", ",", " ", "r", "e",
      "t", "r", "o", " ", "g", "a", "m", "i", "n", "g", " ", "a", "e",
      "s", "t", "h", "e", "t", "i", "c">>,
   oil |->
      <<"o", "i", "l", " ", "p", "a", "i", "n", "t", "i", "n", "g", ",",
      " ", "c", "l", "a", "s", "s", "i", "c", " ", "a", "r", "t", " ",
      "s", "t", "y", "l", "e", ",", " ", "t", "e", "x", "t", "u", "r",
      "e", "d", " ", "b", "r", "u", "s", "h", "s", "t", "r", "o", "k",
      "e", "s">>]


\* STYLES.get(style_key, STYLES["none"])["suffix"]
StyleSuffix(style_key) ==
  IF style_key \in DOMAIN STYLES THEN STYLES[style_key] ELSE STYLES["none"]

\* ------------------------------------------------------------------------
\* Results of calls that may raise
\* ------------------------------------------------------------------------

Ok(v) == [ok |-> TRUE, val |-> v]

Raise(msg) == [ok |-> FALSE, exc |-> msg]

\* ------------------------------------------------------------------------
\* gigachat_enhancer.py
\* ------------------------------------------------------------------------

\* The process environment is the set of the variables that are set to a
\* non-empty value.
get_gigachat_credentials(environ) ==
  IF "GIGACHAT_AUTH_KEY" \in environ
  THEN Ok("GIGACHAT_AUTH_KEY")
  ELSE Raise("GIGACHAT_AUTH_KEY not set in .env")

\* Default of the max_length parameter.
DefaultMaxLength == 250

Ellipsis == <<".", ".", ".">>

CommaSpace == <<",", " ">>

\* Lines 58-59: cut a reply longer than max_length.
Truncate(enhanced, max_length) ==
  IF Len(enhanced) > max_length
  THEN RSplitFirst(Prefix(enhanced, max_length)) \o Ellipsis
  ELSE enhanced

\* An except branch that returns the prompt without the style suffix.
FallbackWithoutSuffix(simple_prompt, style_suffix) == simple_prompt

\* Line 70: what the except branch returns.
Fallback(simple_prompt, style_suffix) ==
  IF style_suffix # <<>>
  THEN simple_prompt \o CommaSpace \o style_suffix
  ELSE simple_prompt

\* enhance_prompt: remote is the outcome of the GigaChat session of lines
\* 33-55, Raise(..) for any exception it raises (transport failure,
\* malformed response) and Ok(content) for the content of the first choice.
enhance_prompt(simple_prompt, style_suffix, max_length, environ, remote) ==
  IF ~get_gigachat_credentials(environ).ok \/ ~remote.ok
  THEN Fallback(simple_prompt, style_suffix)
  ELSE LET enhanced == Truncate(Strip(remote.val), max_length)
       IN  IF style_suffix # <<>>
           THEN enhanced \o CommaSpace \o style_suffix
           ELSE enhanced

\* ------------------------------------------------------------------------
\* image_generator_openrouter.py: the enhancer of the command-line tool
\* ------------------------------------------------------------------------

\* sys.exit(code): SystemExit is not an Exception, no except clause of the
\* tool catches it.
SysExit(code) == [ok |-> FALSE, exit |-> code]

\* Lines 30-37: the tool's credential lookup exits the process when the
\* variable is missing.
cli_get_gigachat_credentials(environ) ==
  IF "GIGACHAT_AUTH_KEY" \in environ
  THEN Ok("GIGACHAT_AUTH_KEY")
  ELSE SysExit(1)

\* Lines 40-92: the same cut as enhance_prompt (lines 82-83), no style
\* suffix, and the prompt itself when the session raises.
enhance_prompt_with_gigachat(simple_prompt, max_length, environ, remote) ==
  IF ~cli_get_gigachat_credentials(environ).ok
  THEN cli_get_gigachat_credentials(environ)
  ELSE IF ~remote.ok
  THEN Ok(simple_prompt)
  ELSE Ok(Truncate(Strip(remote.val), max_length))

\* Lines 113-139 of the tool's generate_image: the data URL it takes from
\* the message, None when it finds none (line 138 then raises). The
\* message has images (None or a sequence of entries with url, imageUrl and
\* image_url) and content (of kind none, str with its text, or list with
\* its items); the
\* three shapes are alternatives of one if / elif / elif.
RECURSIVE FirstImageUrlItem(_)
FirstImageUrlItem(items) ==
  IF items = <<>> THEN None
  ELSE IF Head(items).image_url.some THEN Head(items).image_url.val.url
  ELSE FirstImageUrlItem(Tail(items))

cli_find_data_url(message) ==
  IF message.images.some /\ message.images.val # <<>>
  THEN LET image_data == message.images.val[1]
       IN  IF image_data.url.some THEN image_data.url
           ELSE IF image_data.imageUrl.some
           THEN image_data.imageUrl.val.url
           ELSE None
  ELSE IF message.content.kind = "list"
  THEN FirstImageUrlItem(message.content.items)
  ELSE IF message.content.kind = "str"
  THEN IF Len(message.content.text) > 0
          /\ message.content.text[1] = "data:image/"
       THEN Some(message.content.text)
       ELSE None
  ELSE None

\* ------------------------------------------------------------------------
\* image_generator_core.py
\* ------------------------------------------------------------------------

\* A key lookup that does not check that the variable is set.
get_proxy_api_keyUnchecked(environ) == Ok("PROXY_API")

get_proxy_api_key(environ) ==
  IF "PROXY_API" \in environ
  THEN Ok("PROXY_API")
  ELSE Raise("PROXY_API not set in .env")

get_openrouter_api_key(environ) ==
  IF "OPENROUTER_API_KEY" \in environ
  THEN Ok("OPENROUTER_API_KEY")
  ELSE Raise("OPENROUTER_API_KEY not set in .env")

\* Characters for which str.isalnum() is true, among those of the model.
Alnum ==
  {"a", "b", "c", "d", "e", "f", "g", "h", "i", "j", "k", "l", "m", "n",
   "o", "p", "q", "r", "s", "t", "u", "v", "w", "x", "y", "z",
   "0", "1", "2", "3", "4", "5", "6", "7", "8", "9"}

\* Number of prompt characters the file name is made from.
SlugSource == 30

\* Lines 66-67: the file-name fragment made from the prompt.
SafePrompt(prompt) ==
  LET kept == SelectSeq(Prefix(prompt, SlugSource),
                        LAMBDA c : c \in Alnum \/ c \in {" ", "-", "_"})
      stripped == Strip(kept)
  IN  [k \in 1..Len(stripped) |->
         IF stripped[k] = " " THEN "_" ELSE stripped[k]]

\* Lines 65-69: output_dir / f"{timestamp}_{safe_prompt}.png"
FilePath(provider_dir, timestamp, prompt) ==
  [dir  |-> <<"generated_images", provider_dir>>,
   name |-> <<timestamp, "_">> \o SafePrompt(prompt) \o <<".png">>]

\* str(path)
PathStr(path) == <<path.dir[1], "/", path.dir[2], "/">> \o path.name

\* generate_image_proxyapi: remote is the outcome of the images.generate
\* call and of decoding its payload, Raise(..) or Ok(bytes).
generate_image_proxyapi(prompt, environ, remote, timestamp) ==
  IF ~get_proxy_api_key(environ).ok THEN Raise(get_proxy_api_key(environ).exc)
  ELSE IF ~remote.ok THEN remote
  ELSE Ok(FilePath("proxyapi", timestamp, prompt))

\* A data URL is a sequence of its parts, <<"data:image/", "png;",
\* "base64,", payload>>; url.startswith("data:image/").
IsDataImageUrl(url) == url.some /\ Len(url.val) > 0 /\ url.val[1] = "data:image/"

\* _extract_data_urls_from_message: message.images is None or a sequence of
\* entries [image_url |-> None or Some([url |-> None or Some(url)])].
RECURSIVE ExtractFrom(_)
ExtractFrom(images) ==
  IF images = <<>> THEN <<>>
  ELSE LET img == Head(images)
           url == IF img.image_url.some THEN img.image_url.val.url ELSE None
       IN  (IF IsDataImageUrl(url) THEN <<url.val>> ELSE <<>>)
             \o ExtractFrom(Tail(images))

extract_data_urls_from_message(message) ==
  IF ~message.images.some \/ message.images.val = <<>>
  THEN <<>>
  ELSE ExtractFrom(message.images.val)

\* data_url.split("base64,", 1)[1] exists.
HasBase64Part(url) == \E k \in 1..Len(url) : url[k] = "base64,"

\* generate_image_openrouter: remote is the outcome of the chat completion
\* call, Raise(..) or Ok(message).
generate_image_openrouter(prompt, environ, remote, timestamp) ==
  IF ~get_openrouter_api_key(environ).ok
  THEN Raise(get_openrouter_api_key(environ).exc)
  ELSE IF ~remote.ok THEN remote
  ELSE LET data_urls == extract_data_urls_from_message(remote.val)
       IN  IF data_urls = <<>>
           THEN Raise("images[].image_url.url not found in the response")
           ELSE IF ~HasBase64Part(data_urls[1])
           THEN Raise("list index out of range")
           ELSE Ok(FilePath("openrouter", timestamp, prompt))

\* A dispatch that hands every unrecognised provider key to proxyapi.
generate_imageToProxyapi(prompt, provider, environ, remote, timestamp) ==
  IF provider = "openrouter"
  THEN generate_image_openrouter(prompt, environ, remote, timestamp)
  ELSE generate_image_proxyapi(prompt, environ, remote, timestamp)

\* generate_image: the dispatch on the provider key. remote is the outcome
\* of the provider's remote call.
generate_image(prompt, provider, environ, remote, timestamp) ==
  IF provider = "proxyapi"
  THEN generate_image_proxyapi(prompt, environ, remote, timestamp)
  ELSE IF provider = "openrouter"
  THEN generate_image_openrouter(prompt, environ, remote, timestamp)
  ELSE Raise("unknown provider")

\* ------------------------------------------------------------------------
\* Calls a thread makes
\* ------------------------------------------------------------------------

\* A call of fn with the prompt arg.
Call(fn, arg) == [fn |-> fn, arg |-> arg]

\* Remote calls enhance_prompt issues: the GigaChat session of lines 33-54
\* is opened only when line 31 has returned the credentials.
EnhancerCalls(simple_prompt, environ_) ==
  IF get_gigachat_credentials(environ_).ok
  THEN <<Call("giga.chat", simple_prompt)>>
  ELSE <<>>

\* Remote calls generate_image issues: an adapter calls its service only
\* when its key lookup has returned; a provider key without an adapter
\* reaches no service.
AdapterCalls(prompt, provider, environ_) ==
  IF provider = "proxyapi" /\ get_proxy_api_key(environ_).ok
  THEN <<Call("client.images.generate", prompt)>>
  ELSE IF provider = "openrouter" /\ get_openrouter_api_key(environ_).ok
  THEN <<Call("client.chat.completions.create", prompt)>>
  ELSE <<>>

\* ------------------------------------------------------------------------
\* app.py: state
\* ------------------------------------------------------------------------

VARIABLES
  generation_status,  \* the module-level dict that /api/status returns
  environ,            \* environment variables that are set
  hpc,                \* per slot: where its api_generate call stands
  data,               \* per slot: request body of its api_generate call
  jpc,                \* per slot: where its background thread stands
  args,               \* per slot: (user_prompt, style_key, provider) of the thread
  enhanced,           \* per slot: local variable enhanced of the thread
  image_path,         \* per slot: local variable image_path of the thread
  e,                  \* per slot: the exception the thread has caught
  latest,             \* slot of the most recently accepted request, 0 if none
  calls,              \* per slot: the calls its thread has made, in order
  probe               \* a function under test: its input and its result

vars ==
  <<generation_status, environ, hpc, data, jpc, args, enhanced, image_path, e,
    latest, calls, probe>>

Slots == DOMAIN hpc

EnvNames == {"GIGACHAT_AUTH_KEY", "PROXY_API", "OPENROUTER_API_KEY"}

\* Lines 24-32.
InitialStatus ==
  [status          |-> "idle",
   progress        |-> 0,
   message         |-> <<>>,
   image_path      |-> None,
   original_prompt |-> <<>>,
   enhanced_prompt |-> <<>>,
   error           |-> None]

\* A reset that updates the existing dict and forgets the result fields.
ResetStatusKeepingResults(user_prompt) ==
  [generation_status EXCEPT
     !.status = "starting",
     !.progress = 0,
     !.message = <<"Starting generation...">>,
     !.original_prompt = user_prompt]

\* Lines 84-92: the dict api_generate binds generation_status to.
ResetStatus(user_prompt) ==
  [status          |-> "starting",
   progress        |-> 0,
   message         |-> <<"Starting generation...">>,
   image_path      |-> None,
   original_prompt |-> user_prompt,
   enhanced_prompt |-> <<>>,
   error           |-> None]

\* dict.get(key, default) on the request body: a key is absent (None) or
\* present (Some(value)).
Get(field, default) == IF field.some THEN field.val ELSE default

\* provider.upper()
Upper(provider) ==
  CASE provider = "proxyapi"   -> "PROXYAPI"
    [] provider = "openrouter" -> "OPENROUTER"
    [] provider = "dalle"      -> "DALLE"

InitSlots(n) ==
  /\ generation_status = InitialStatus
  /\ hpc = [i \in 1..n |-> "free"]
  /\ data = [i \in 1..n |-> None]
  /\ jpc = [i \in 1..n |-> "none"]
  /\ args = [i \in 1..n |-> None]
  /\ enhanced = [i \in 1..n |-> None]
  /\ image_path = [i \in 1..n |-> None]
  /\ e = [i \in 1..n |-> None]
  /\ latest = 0
  /\ calls = [i \in 1..n |-> <<>>]

\* ------------------------------------------------------------------------
\* app.py: api_generate, one call per slot
\* ------------------------------------------------------------------------

\* A slot can take a request when its previous call has returned and its
\* previous thread has ended; a request takes the lowest such slot.
Idle(i) == hpc[i] = "free" /\ jpc[i] = "none"

LowestIdle(i) == Idle(i) /\ \A k \in Slots : k < i => ~Idle(k)

\* An api_generate that resets generation_status before it checks the prompt.
ApiGenerateResetFirst(i, requests) ==
  /\ LowestIdle(i)
  /\ \E body \in requests :
       LET user_prompt == Strip(Get(body.prompt, <<>>))
       IN  /\ data' = [data EXCEPT ![i] = Some(body)]
           /\ generation_status' = ResetStatus(user_prompt)
           /\ IF user_prompt = <<>>
              THEN /\ hpc' = [hpc EXCEPT ![i] = "l81"]
                   /\ UNCHANGED <<args, latest>>
              ELSE /\ args' = [args EXCEPT ![i] =
                        Some([user_prompt |-> user_prompt,
                              style_key   |-> Get(body.style, "none"),
                              provider    |-> Get(body.provider, "proxyapi")])]
                   /\ hpc' = [hpc EXCEPT ![i] = "l95"]
                   /\ latest' = i
  /\ UNCHANGED <<environ, probe, calls, jpc, enhanced, image_path, e>>

\* Lines 75-92: read the body (data), reject a blank prompt, else rebind
\* generation_status to a fresh dict.
ApiGenerate(i, requests) ==
  /\ LowestIdle(i)
  /\ \E body \in requests :
       LET user_prompt == Strip(Get(body.prompt, <<>>))
           style_key   == Get(body.style, "none")
           provider    == Get(body.provider, "proxyapi")
       IN  /\ data' = [data EXCEPT ![i] = Some(body)]
           /\ IF user_prompt = <<>>
              THEN /\ hpc' = [hpc EXCEPT ![i] = "l81"]
                   /\ UNCHANGED <<generation_status, args, latest>>
              ELSE /\ generation_status' = ResetStatus(user_prompt)
                   /\ args' = [args EXCEPT ![i] =
                        Some([user_prompt |-> user_prompt,
                              style_key   |-> style_key,
                              provider    |-> provider])]
                   /\ hpc' = [hpc EXCEPT ![i] = "l95"]
                   /\ latest' = i
  /\ UNCHANGED <<environ, probe, calls, jpc, enhanced, image_path, e>>

\* Line 81: return the error response, status 400.
ReturnError(i) ==
  /\ hpc[i] = "l81"
  /\ hpc' = [hpc EXCEPT ![i] = "free"]
  /\ data' = [data EXCEPT ![i] = None]
  /\ UNCHANGED <<generation_status, environ, probe, calls, jpc, args, enhanced,
                 image_path, e, latest>>

\* Lines 95-99: thread.start().
ThreadStart(i) ==
  /\ hpc[i] = "l95"
  /\ hpc' = [hpc EXCEPT ![i] = "l101"]
  /\ jpc' = [jpc EXCEPT ![i] = "l110"]
  /\ UNCHANGED <<generation_status, environ, probe, calls, data, args, enhanced,
                 image_path, e, latest>>

\* An api_generate that joins its thread before it returns.
ReturnSuccessAfterJoin(i) ==
  /\ hpc[i] = "l101"
  /\ jpc[i] = "none"
  /\ hpc' = [hpc EXCEPT ![i] = "free"]
  /\ data' = [data EXCEPT ![i] = None]
  /\ UNCHANGED <<generation_status, environ, probe, calls, jpc, args, enhanced,
                 image_path, e, latest>>

\* Line 101: return the success response.
ReturnSuccess(i) ==
  /\ hpc[i] = "l101"
  /\ hpc' = [hpc EXCEPT ![i] = "free"]
  /\ data' = [data EXCEPT ![i] = None]
  /\ UNCHANGED <<generation_status, environ, probe, calls, jpc, args, enhanced,
                 image_path, e, latest>>

\* ------------------------------------------------------------------------
\* app.py: generate_image_background, one statement per step
\* ------------------------------------------------------------------------

\* generation_status[key] = value, executed by the thread of slot i, which
\* goes on to line to. The name generation_status is
\* looked up when the statement runs, so the write lands in the dict the
\* name is bound to at that moment.
SetItem(i, key, value, to) ==
  /\ generation_status' = [generation_status EXCEPT ![key] = value]
  /\ jpc' = [jpc EXCEPT ![i] = to]
  /\ UNCHANGED <<environ, probe, calls, hpc, data, args, enhanced, image_path,
                 e, latest>>

\* The thread of slot i returns: its locals are gone.
SetItemAndEnd(i, key, value) ==
  /\ generation_status' = [generation_status EXCEPT ![key] = value]
  /\ jpc' = [jpc EXCEPT ![i] = "none"]
  /\ args' = [args EXCEPT ![i] = None]
  /\ enhanced' = [enhanced EXCEPT ![i] = None]
  /\ image_path' = [image_path EXCEPT ![i] = None]
  /\ e' = [e EXCEPT ![i] = None]
  /\ calls' = [calls EXCEPT ![i] = <<>>]
  /\ UNCHANGED <<environ, probe, hpc, data, latest>>

L110(i) ==
  /\ jpc[i] = "l110"
  /\ SetItem(i, "status", "enhancing", "l111")

L111(i) ==
  /\ jpc[i] = "l111"
  /\ SetItem(i, "progress", 20, "l112")

L112(i) ==
  /\ jpc[i] = "l112"
  /\ SetItem(i, "message", <<"GigaChat is enhancing the prompt...">>, "l114")

\* Lines 114-115: look the style up and call enhance_prompt.
L115(i, replies) ==
  /\ jpc[i] = "l114"
  /\ \E remote \in replies :
       enhanced' = [enhanced EXCEPT ![i] =
         Some(enhance_prompt(args[i].val.user_prompt,
                             StyleSuffix(args[i].val.style_key),
                             DefaultMaxLength, environ, remote))]
  /\ calls' = [calls EXCEPT ![i] =
       @ \o <<Call("enhance_prompt", args[i].val.user_prompt)>>
         \o EnhancerCalls(args[i].val.user_prompt, environ)]
  /\ jpc' = [jpc EXCEPT ![i] = "l117"]
  /\ UNCHANGED <<generation_status, environ, probe, hpc, data, args, image_path,
                 e, latest>>

\* A thread that also puts its own prompt back into the record.
L117RestoringPrompt(i) ==
  /\ jpc[i] = "l117"
  /\ generation_status' =
       [generation_status EXCEPT !.enhanced_prompt = enhanced[i].val,
                                 !.original_prompt = args[i].val.user_prompt]
  /\ jpc' = [jpc EXCEPT ![i] = "l118"]
  /\ UNCHANGED <<environ, probe, calls, hpc, data, args, enhanced, image_path,
                 e, latest>>

L117(i) ==
  /\ jpc[i] = "l117"
  /\ SetItem(i, "enhanced_prompt", enhanced[i].val, "l118")

L118(i) ==
  /\ jpc[i] = "l118"
  /\ SetItem(i, "progress", 40, "l119")

L119(i) ==
  /\ jpc[i] = "l119"
  /\ SetItem(i, "message", <<"Prompt enhanced!">>, "l122")

L122(i) ==
  /\ jpc[i] = "l122"
  /\ SetItem(i, "status", "generating", "l123")

L123(i) ==
  /\ jpc[i] = "l123"
  /\ SetItem(i, "progress", 60, "l124")

L124(i) ==
  /\ jpc[i] = "l124"
  /\ SetItem(i, "message",
             <<"Generating the image with ", Upper(args[i].val.provider), "...">>,
             "l126")

\* The outcomes the remote call of a provider can have; a provider key
\* without an adapter makes no call.
NoCall == Raise("no remote call")

OutcomesOf(outcomes, provider) ==
  IF provider \in DOMAIN outcomes THEN outcomes[provider] ELSE {NoCall}

\* A thread without the except clause: an exception of generate_image ends
\* the thread where it stands.
L126Uncaught(i, outcomes, timestamps) ==
  /\ jpc[i] = "l126"
  /\ \E remote \in OutcomesOf(outcomes, args[i].val.provider),
        timestamp \in timestamps :
       LET r == generate_image(enhanced[i].val, args[i].val.provider,
                               environ, remote, timestamp)
       IN  IF r.ok
           THEN /\ image_path' = [image_path EXCEPT ![i] = Some(r.val)]
                /\ jpc' = [jpc EXCEPT ![i] = "l129"]
                /\ UNCHANGED <<args, enhanced, calls>>
           ELSE /\ jpc' = [jpc EXCEPT ![i] = "none"]
                /\ args' = [args EXCEPT ![i] = None]
                /\ enhanced' = [enhanced EXCEPT ![i] = None]
                /\ calls' = [calls EXCEPT ![i] = <<>>]
                /\ image_path' = image_path
  /\ UNCHANGED <<generation_status, environ, probe, hpc, data, e, latest>>

\* A pipeline that gives generate_image the user's prompt instead of the
\* enhanced one.
L126WithOriginalPrompt(i, outcomes, timestamps) ==
  /\ jpc[i] = "l126"
  /\ \E remote \in OutcomesOf(outcomes, args[i].val.provider),
        timestamp \in timestamps :
       LET r == generate_image(args[i].val.user_prompt, args[i].val.provider,
                               environ, remote, timestamp)
       IN  IF r.ok
           THEN /\ image_path' = [image_path EXCEPT ![i] = Some(r.val)]
                /\ jpc' = [jpc EXCEPT ![i] = "l129"]
                /\ e' = e
           ELSE /\ e' = [e EXCEPT ![i] = Some(r.exc)]
                /\ jpc' = [jpc EXCEPT ![i] = "l135"]
                /\ image_path' = image_path
  /\ calls' = [calls EXCEPT ![i] =
       @ \o <<Call("generate_image", args[i].val.user_prompt)>>
         \o AdapterCalls(args[i].val.user_prompt, args[i].val.provider,
                         environ)]
  /\ UNCHANGED <<generation_status, environ, probe, hpc, data, args, enhanced,
                 latest>>

\* Line 126: call generate_image; an exception takes the thread to the
\* except clause of line 134.
L126(i, outcomes, timestamps) ==
  /\ jpc[i] = "l126"
  /\ \E remote \in OutcomesOf(outcomes, args[i].val.provider),
        timestamp \in timestamps :
       LET r == generate_image(enhanced[i].val, args[i].val.provider,
                               environ, remote, timestamp)
       IN  IF r.ok
           THEN /\ image_path' = [image_path EXCEPT ![i] = Some(r.val)]
                /\ jpc' = [jpc EXCEPT ![i] = "l129"]
                /\ e' = e
           ELSE /\ e' = [e EXCEPT ![i] = Some(r.exc)]
                /\ jpc' = [jpc EXCEPT ![i] = "l135"]
                /\ image_path' = image_path
  /\ calls' = [calls EXCEPT ![i] =
       @ \o <<Call("generate_image", enhanced[i].val)>>
         \o AdapterCalls(enhanced[i].val, args[i].val.provider, environ)]
  /\ UNCHANGED <<generation_status, environ, probe, hpc, data, args, enhanced,
                 latest>>

L129(i) ==
  /\ jpc[i] = "l129"
  /\ SetItem(i, "status", "done", "l130")

L130(i) ==
  /\ jpc[i] = "l130"
  /\ SetItem(i, "progress", 100, "l131")

L131(i) ==
  /\ jpc[i] = "l131"
  /\ SetItem(i, "message", <<"Image is ready!">>, "l132")

L132(i) ==
  /\ jpc[i] = "l132"
  /\ SetItemAndEnd(i, "image_path", Some(PathStr(image_path[i].val)))

\* An except clause that records the error without the status.
L135WithoutStatus(i) ==
  /\ jpc[i] = "l135"
  /\ jpc' = [jpc EXCEPT ![i] = "l136"]
  /\ UNCHANGED <<generation_status, environ, probe, calls, hpc, data, args,
                 enhanced, image_path, e, latest>>

\* An except clause that also resets the progress.
L135ResettingProgress(i) ==
  /\ jpc[i] = "l135"
  /\ generation_status' =
       [generation_status EXCEPT !.status = "error", !.progress = 0]
  /\ jpc' = [jpc EXCEPT ![i] = "l136"]
  /\ UNCHANGED <<environ, probe, calls, hpc, data, args, enhanced, image_path,
                 e, latest>>

L135(i) ==
  /\ jpc[i] = "l135"
  /\ SetItem(i, "status", "error", "l136")

L136(i) ==
  /\ jpc[i] = "l136"
  /\ SetItem(i, "error", Some(e[i].val), "l137")

L137(i) ==
  /\ jpc[i] = "l137"
  /\ SetItemAndEnd(i, "message", <<"Error: ", e[i].val>>)

\* ------------------------------------------------------------------------
\* Inputs
\* ------------------------------------------------------------------------

RequestsOver(prompts, styles, providers) ==
  [prompt : prompts, style : styles, provider : providers]

\* Request bodies of the concurrent specification.
RaceRequests ==
  RequestsOver({Some(<<" ">>), Some(<<" ", "a">>)},
               {None}, {None})

\* Request bodies of the one-request-at-a-time specification.
Requests ==
  RequestsOver({None, Some(<<>>), Some(<<" ", "\t", "\n">>),
                Some(<<" ", "a", " ", "c", "a", "t", "\n">>),
                Some(<<"f", "o", "x", "!">>)},
               {None, Some("anime"), Some("pixel"), Some("sepia")},
               {None, Some("openrouter"), Some("dalle")})

\* Outcomes of the GigaChat session.
Replies ==
  {Raise("connection error"),
   Ok(<<" ", "b", "i", "g", " ", "c", "a", "t", "\n">>)}

RaceReplies == {Ok(<<"c">>)}

DataUrl == <<"data:image/", "png;", "base64,", "iVBORw0KGgo=">>

HttpUrl == <<"https://", "example.com/cat.png">>

Image(url) == [image_url |-> Some([url |-> Some(url)])]

\* Outcomes of the remote call of each adapter.
Outcomes ==
  [proxyapi   |-> {Raise("connection error"), Ok("png bytes")},
   openrouter |-> {Raise("connection error"),
                   Ok([images |-> None]),
                   Ok([images |-> Some(<<Image(HttpUrl)>>)]),
                   Ok([images |-> Some(<<Image(HttpUrl), Image(DataUrl)>>)])}]

RaceOutcomes ==
  [proxyapi |-> {Raise("connection error"), Ok("png bytes")}]

\* Values of datetime.now().strftime("%Y%m%d_%H%M%S").
Timestamps == {"20250101_120000", "20250101_120001"}

RaceTimestamps == {"20250101_120000"}

\* ------------------------------------------------------------------------
\* Specifications
\* ------------------------------------------------------------------------

\* Concurrent requests: up to MaxThreads requests are in flight together,
\* all credentials configured.
Init == InitSlots(MaxThreads) /\ environ = EnvNames /\ probe = None

Next ==
  \E i \in 1..MaxThreads :
    \/ ApiGenerate(i, RaceRequests)
    \/ ReturnError(i)
    \/ ThreadStart(i)
    \/ ReturnSuccess(i)
    \/ L110(i)
    \/ L111(i)
    \/ L112(i)
    \/ L115(i, RaceReplies)
    \/ L117(i)
    \/ L118(i)
    \/ L119(i)
    \/ L122(i)
    \/ L123(i)
    \/ L124(i)
    \/ L126(i, RaceOutcomes, RaceTimestamps)
    \/ L129(i)
    \/ L130(i)
    \/ L131(i)
    \/ L132(i)
    \/ L135(i)
    \/ L136(i)
    \/ L137(i)

Spec == Init /\ [][Next]_vars

\* Concurrent requests with different prompts: a blank one, one for
\* proxyapi, whose call succeeds, and one for a provider without adapter,
\* whose dispatch raises.
PromptRequests ==
  {[prompt |-> Some(<<" ">>), style |-> None, provider |-> None],
   [prompt |-> Some(<<" ", "a">>), style |-> None, provider |-> None],
   [prompt |-> Some(<<"b">>), style |-> None, provider |-> Some("dalle")]}

PromptOutcomes == [proxyapi |-> {Ok("png bytes")}]

NextPrompts ==
  \E i \in 1..MaxThreads :
    \/ ApiGenerate(i, PromptRequests)
    \/ ReturnError(i)
    \/ ThreadStart(i)
    \/ ReturnSuccess(i)
    \/ L110(i)
    \/ L111(i)
    \/ L112(i)
    \/ L115(i, RaceReplies)
    \/ L117(i)
    \/ L118(i)
    \/ L119(i)
    \/ L122(i)
    \/ L123(i)
    \/ L124(i)
    \/ L126(i, PromptOutcomes, RaceTimestamps)
    \/ L129(i)
    \/ L130(i)
    \/ L131(i)
    \/ L132(i)
    \/ L135(i)
    \/ L136(i)
    \/ L137(i)

SpecPrompts == Init /\ [][NextPrompts]_vars

\* One request at a time, any configuration of the credentials.
InitSingle == InitSlots(1) /\ environ \in SUBSET EnvNames /\ probe = None

NextSingle ==
  \E i \in {1} :
    \/ ApiGenerate(i, Requests)
    \/ ReturnError(i)
    \/ ThreadStart(i)
    \/ ReturnSuccess(i)
    \/ L110(i)
    \/ L111(i)
    \/ L112(i)
    \/ L115(i, Replies)
    \/ L117(i)
    \/ L118(i)
    \/ L119(i)
    \/ L122(i)
    \/ L123(i)
    \/ L124(i)
    \/ L126(i, Outcomes, Timestamps)
    \/ L129(i)
    \/ L130(i)
    \/ L131(i)
    \/ L132(i)
    \/ L135(i)
    \/ L136(i)
    \/ L137(i)

SpecSingle == InitSingle /\ [][NextSingle]_vars

\* The steps of the one background thread of SpecSingle.
ThreadNextSingle ==
  \E i \in {1} :
    \/ L110(i) \/ L111(i) \/ L112(i)
    \/ L115(i, Replies)
    \/ L117(i) \/ L118(i) \/ L119(i)
    \/ L122(i) \/ L123(i) \/ L124(i)
    \/ L126(i, Outcomes, Timestamps)
    \/ L129(i) \/ L130(i) \/ L131(i) \/ L132(i)
    \/ L135(i) \/ L136(i) \/ L137(i)

\* SpecSingle with a scheduler that keeps running a started thread, and
\* remote calls that return or raise: a thread that can take a step
\* eventually takes one.
SpecSingleFair == SpecSingle /\ WF_vars(ThreadNextSingle)

\* ------------------------------------------------------------------------
\* The enhancers as functions
\* ------------------------------------------------------------------------

\* Longest reply of the GigaChat session that is tried.
MaxReplyLen == 6

\* Characters of the replies: a letter and the space rsplit cuts at.
ReplyAlphabet == {"a", " "}

ReplyTexts == UNION {[1..n -> ReplyAlphabet] : n \in 0..MaxReplyLen}

\* Outcomes of the GigaChat session: an exception of the transport, an
\* exception on a malformed response, or the content of the first choice.
EnhancerReplies ==
  {Raise("connection error"), Raise("malformed response")}
    \cup {Ok(text) : text \in ReplyTexts}

\* Values of max_length: longer than the ellipsis, and short enough for the
\* replies to exceed them.
MaxLengths == (Len(Ellipsis) + 1)..(MaxReplyLen - 1)

EnhancerPrompts == {<<"p">>, <<"p", " ", "q">>}

EnhancerStyles == {"none", "pixel"}

\* A call of gigachat_enhancer.enhance_prompt with its result; a behaviour
\* makes one call.
CallEnhancePrompt ==
  /\ probe = None
  /\ \E simple_prompt \in EnhancerPrompts, style_key \in EnhancerStyles,
        max_length \in MaxLengths, remote \in EnhancerReplies :
       probe' = Some([fn            |-> "enhance_prompt",
                      simple_prompt |-> simple_prompt,
                      style_suffix  |-> StyleSuffix(style_key),
                      max_length    |-> max_length,
                      remote        |-> remote,
                      result        |->
                        enhance_prompt(simple_prompt, StyleSuffix(style_key),
                                       max_length, environ, remote)])
  /\ UNCHANGED <<generation_status, environ, hpc, data, jpc, args, enhanced,
                 image_path, e, latest, calls>>

\* A call of the tool's enhance_prompt_with_gigachat with its result.
CallEnhancePromptWithGigachat ==
  /\ probe = None
  /\ \E simple_prompt \in EnhancerPrompts, max_length \in MaxLengths,
        remote \in EnhancerReplies :
       probe' = Some([fn            |-> "enhance_prompt_with_gigachat",
                      simple_prompt |-> simple_prompt,
                      style_suffix  |-> <<>>,
                      max_length    |-> max_length,
                      remote        |-> remote,
                      result        |->
                        enhance_prompt_with_gigachat(simple_prompt,
                                                     max_length, environ,
                                                     remote)])
  /\ UNCHANGED <<generation_status, environ, hpc, data, jpc, args, enhanced,
                 image_path, e, latest, calls>>

InitEnhancer ==
  InitSlots(1) /\ environ \in SUBSET EnvNames /\ probe = None

NextEnhancer == CallEnhancePrompt \/ CallEnhancePromptWithGigachat

SpecEnhancer == InitEnhancer /\ [][NextEnhancer]_vars

\* ------------------------------------------------------------------------
\* The response normalizers as functions
\* ------------------------------------------------------------------------

Nested(url) == Some([url |-> Some(url)])

\* An entry of message.images.
ImageEntry(url, imageUrl, image_url) ==
  [url |-> url, imageUrl |-> imageUrl, image_url |-> image_url]

ImageEntries ==
  {ImageEntry(None, None, None),
   ImageEntry(None, None, Nested(DataUrl)),
   ImageEntry(None, None, Nested(HttpUrl)),
   ImageEntry(Some(DataUrl), None, None)}

\* Values of message.images: missing, empty, one entry or two.
ImagesFields ==
  {None, Some(<<>>)}
    \cup {Some(<<a>>) : a \in ImageEntries}
    \cup {Some(<<a, b>>) : a \in ImageEntries, b \in ImageEntries}

\* An item of a list-valued content: text, or one carrying image_url.
TextItem == [image_url |-> None]

ImageItem(url) == [image_url |-> Nested(url)]

\* Values of message.content: missing, a string (a data URL or plain
\* text), or a list of items.
NoContent == [kind |-> "none", text |-> <<>>, items |-> <<>>]

StrContent(text) == [kind |-> "str", text |-> text, items |-> <<>>]

ListContent(items) == [kind |-> "list", text |-> <<>>, items |-> items]

ContentFields ==
  {NoContent,
   StrContent(DataUrl),
   StrContent(<<"Here is your image.">>),
   ListContent(<<TextItem>>),
   ListContent(<<ImageItem(DataUrl)>>),
   ListContent(<<TextItem, ImageItem(DataUrl)>>)}

Messages ==
  {[images |-> images, content |-> content] :
     images \in ImagesFields, content \in ContentFields}

\* A call of _extract_data_urls_from_message of image_generator_core.py;
\* the result is the list it returns, and generate_image_openrouter raises
\* the no-image error when the list is empty (lines 140-145).
CallExtractDataUrls ==
  /\ probe = None
  /\ \E message \in Messages :
       probe' = Some([fn      |-> "_extract_data_urls_from_message",
                      message |-> message,
                      result  |-> extract_data_urls_from_message(message)])
  /\ UNCHANGED <<generation_status, environ, hpc, data, jpc, args, enhanced,
                 image_path, e, latest, calls>>

\* The lookup of the tool's generate_image; the result is the list of the
\* one data URL it takes, empty when line 138 raises.
CallCliFindDataUrl ==
  /\ probe = None
  /\ \E message \in Messages :
       probe' = Some([fn      |-> "generate_image",
                      message |-> message,
                      result  |->
                        IF cli_find_data_url(message).some
                        THEN <<cli_find_data_url(message).val>>
                        ELSE <<>>])
  /\ UNCHANGED <<generation_status, environ, hpc, data, jpc, args, enhanced,
                 image_path, e, latest, calls>>

InitNormalizer == InitSlots(1) /\ environ = EnvNames /\ probe = None

NextNormalizer == CallExtractDataUrls \/ CallCliFindDataUrl

SpecNormalizer == InitNormalizer /\ [][NextNormalizer]_vars

\* ------------------------------------------------------------------------
\* Vocabulary of the properties
\* ------------------------------------------------------------------------

\* The step accepts the request of slot i (the reset of lines 84-92).
Accepts(i) == hpc[i] = "free" /\ hpc'[i] = "l95"

\* The step rejects the request of slot i, or returns its error response.
Rejects(i) ==
  \/ hpc[i] = "free" /\ hpc'[i] = "l81"
  \/ hpc[i] = "l81" /\ hpc'[i] = "free"

\* The step is a step of the background thread of slot i.
ThreadStep(i) == jpc[i] # "none" /\ jpc'[i] # jpc[i]

\* The prompt of a request body is empty or whitespace only.
Blank(body) == \A k \in 1..Len(Get(body.prompt, <<>>)) :
                 Get(body.prompt, <<>>)[k] \in Whitespace

\* Position of a status in idle -> starting -> enhancing -> generating ->
\* {done | error}.
StatusRank(status) ==
  CASE status = "idle"       -> 0
    [] status = "starting"   -> 1
    [] status = "enhancing"  -> 2
    [] status = "generating" -> 3
    [] status = "done"       -> 4
    [] status = "error"      -> 4

\* ------------------------------------------------------------------------
\* Properties
\* ------------------------------------------------------------------------

\* C1: every change of generation_status.status moves forward in the order
\* idle -> starting -> enhancing -> generating -> {done | error}, except the
\* reset to starting made by api_generate when it accepts a request.
\* Violated: with two jobs in flight the thread of one job writes its status
\* over the later status of the other.
C1_StatusMovesForward ==
  [][generation_status'.status # generation_status.status =>
       \/ StatusRank(generation_status.status)
            < StatusRank(generation_status'.status)
       \/ /\ generation_status'.status = "starting"
          /\ \E i \in Slots : Accepts(i)]_vars

\* C2: progress stays in 0..100 and, except at the acceptance of a request,
\* never decreases.
\* Violated: a thread of an earlier request writes its lower progress into
\* the record after the thread of a later request has written a higher one.
C2_ProgressNeverDecreases ==
  [][/\ generation_status'.progress \in 0..100
     /\ (\A i \in Slots : ~Accepts(i)) =>
          generation_status'.progress >= generation_status.progress]_vars

\* C3: image_path is null unless status is done.
\* Violated: a request is accepted between lines 129 and 132 of an earlier
\* job, whose thread then writes image_path into the fresh record.
C3_ImagePathNullUnlessDone ==
  generation_status.image_path.some => generation_status.status = "done"

\* C4: error is null unless status is error.
\* Violated: a request is accepted between lines 135 and 136 of an earlier
\* job, whose thread then writes error into the fresh record.
C4_ErrorNullUnlessError ==
  generation_status.error.some => generation_status.status = "error"

\* C5: a status reading with status done has a non-null image_path and a
\* null error.
\* Violated: line 129 writes status before line 132 writes image_path.
C5_DoneHasImage ==
  generation_status.status = "done" =>
    generation_status.image_path.some /\ ~generation_status.error.some

\* C6 as stated: when the call of a request with a non-blank prompt is
\* about to return, status is starting or enhancing.
\* Violated: the thread started at line 99 runs on before line 101 returns.
C6_StartingOrEnhancingAtReturn ==
  \A i \in Slots :
    hpc[i] = "l101" => generation_status.status \in {"starting", "enhancing"}

\* C6 amended: a request with a non-blank prompt takes the success path;
\* its call can return whatever its thread is doing, and when it returns
\* status is not idle: starting, or whatever a thread has written since
\* (enhancing, generating, done, error).
C6_ReturnsWithoutWaiting ==
  \A i \in Slots :
    /\ (data[i].some /\ ~Blank(data[i].val)) => hpc[i] \in {"l95", "l101"}
    /\ hpc[i] = "l101" =>
         /\ ENABLED ReturnSuccess(i)
         /\ generation_status.status
              \in {"starting", "enhancing", "generating", "done", "error"}

\* C6 witness: a call about to return while its own thread has already
\* moved status past enhancing.
C6_Witness ==
  /\ hpc[1] = "l101"
  /\ jpc[1] = "l126"
  /\ generation_status.status = "generating"
  /\ \A k \in Slots : k # 1 => Idle(k)

\* C7: a request with an empty or whitespace-only prompt gets the error
\* response (line 81), and its call changes no field of generation_status
\* and starts no thread.
C7_BlankPromptRejected ==
  /\ [](\A i \in Slots :
          (data[i].some /\ Blank(data[i].val)) =>
            hpc[i] = "l81" /\ jpc[i] = "none" /\ ~args[i].some)
  /\ [][\A i \in Slots :
          Rejects(i) =>
            /\ generation_status' = generation_status
            /\ jpc' = jpc
            /\ args' = args]_vars

\* C7 witness: a blank request is being rejected while another job is in
\* flight and the record is not the initial one.
C7_Witness ==
  \E i \in Slots :
    /\ hpc[i] = "l81"
    /\ Blank(data[i].val)
    /\ generation_status.status = "generating"
    /\ generation_status.enhanced_prompt # <<>>

\* C8: the acceptance of a request replaces the record, whatever it held,
\* by status starting, progress 0, image_path null, enhanced_prompt empty,
\* error null and original_prompt the stripped prompt of the request.
C8_ResetOverwritesRecord ==
  [][\A i \in Slots :
       Accepts(i) =>
         /\ generation_status'.status = "starting"
         /\ generation_status'.progress = 0
         /\ generation_status'.image_path = None
         /\ generation_status'.enhanced_prompt = <<>>
         /\ generation_status'.error = None
         /\ generation_status'.original_prompt
              = Strip(Get(data'[i].val.prompt, <<>>))
         /\ generation_status'.original_prompt # <<>>]_vars

\* C8 witness: a request has just been accepted while an earlier job is in
\* flight, past the write of its status done.
C8_Witness ==
  \E i, j \in Slots :
    /\ i # j
    /\ hpc[i] = "l95"
    /\ jpc[j] = "l132"
    /\ generation_status.status = "starting"
    /\ generation_status.progress = 0

\* C9: once a later request has been accepted, no step of the thread of an
\* earlier request changes generation_status.
\* Violated: the thread looks the name generation_status up at each write,
\* so its writes land in the record of the later request.
C9_EarlierJobWritesNothing ==
  [][\A i \in Slots :
       (latest # 0 /\ latest # i /\ ThreadStep(i)) =>
         generation_status' = generation_status]_vars

\* C10: with one job at a time, every status reading is one of
\* starting(0), enhancing(20), enhancing(40, enhanced_prompt written),
\* generating(60), done(100, image_path set).
\* Violated: the fields are written one statement at a time, so a reading
\* between lines 110 and 111 has status enhancing and progress 0.
C10_ReadingsAreSequenceStates ==
  LET st == generation_status
  IN  st.status \in {"starting", "enhancing", "generating", "done"} =>
        \/ st.status = "starting" /\ st.progress = 0
        \/ st.status = "enhancing" /\ st.progress \in {20, 40}
        \/ st.status = "generating" /\ st.progress = 60
        \/ st.status = "done" /\ st.progress = 100 /\ st.image_path.some

\* C11: an exception raised in the try block is caught without a write;
\* the except clause then sets status to error, error to the exception
\* text and message to the error message, leaves progress, image_path,
\* enhanced_prompt and original_prompt as they are, and the thread ends
\* with the write of the message.
C11_ExceptClauseWrites ==
  [][\A i \in Slots :
       /\ (jpc[i] = "l126" /\ jpc'[i] = "l135") =>
            /\ generation_status' = generation_status
            /\ e'[i].some
       /\ (ThreadStep(i) /\ jpc[i] \in {"l135", "l136", "l137"}) =>
            /\ generation_status'.progress = generation_status.progress
            /\ generation_status'.image_path = generation_status.image_path
            /\ generation_status'.enhanced_prompt
                 = generation_status.enhanced_prompt
            /\ generation_status'.original_prompt
                 = generation_status.original_prompt
            /\ jpc[i] = "l135" =>
                 generation_status'.status = "error" /\ jpc'[i] = "l136"
            /\ jpc[i] = "l136" =>
                 /\ generation_status'.error = Some(e[i].val)
                 /\ jpc'[i] = "l137"
            /\ jpc[i] = "l137" =>
                 /\ generation_status'.message = <<"Error: ", e[i].val>>
                 /\ jpc'[i] = "none"]_vars

\* C11 witness: a thread whose image call raised has written status and
\* error and stands before its last write; progress is still 60.
C11_Witness ==
  \E i \in Slots :
    /\ jpc[i] = "l137"
    /\ generation_status.status = "error"
    /\ generation_status.error = Some(e[i].val)
    /\ generation_status.progress = 60

\* The job of slot i was started with a provider key that has no adapter.
UnknownProvider(i) ==
  args[i].some /\ args[i].val.provider \notin {"proxyapi", "openrouter"}

\* C12: a job started with a provider key other than proxyapi or
\* openrouter never reaches the writes of done; its dispatch raises the
\* unknown-provider error, its status is error from the first write of the
\* except clause on, and it is error when the job ends.
C12_UnknownProviderFails ==
  /\ [](\A i \in Slots : UnknownProvider(i) =>
          /\ jpc[i] \notin {"l129", "l130", "l131", "l132"}
          /\ generation_status.status # "done"
          /\ jpc[i] \in {"l135", "l136", "l137"} =>
               e[i] = Some("unknown provider")
          /\ jpc[i] \in {"l136", "l137"} =>
               generation_status.status = "error")
  /\ [][\A i \in Slots :
          (UnknownProvider(i) /\ jpc[i] # "none" /\ jpc'[i] = "none") =>
            /\ generation_status'.status = "error"
            /\ generation_status'.error = Some("unknown provider")]_vars

\* C12 witness: the job with provider dalle stands before its last write,
\* with the unknown-provider error recorded.
C12_Witness ==
  /\ UnknownProvider(1)
  /\ jpc[1] = "l137"
  /\ generation_status.status = "error"
  /\ generation_status.error = Some("unknown provider")

\* C13: every started job reaches the write of done or of error, and the
\* record then shows that status; a thread ends only after line 132 or line
\* 137, with a terminal status in the record.
C13_StartedJobTerminates ==
  /\ \A i \in {1} :
       (jpc[i] = "l110") ~>
         (/\ jpc[i] \in {"l130", "l136"}
          /\ generation_status.status \in {"done", "error"})
  /\ \A i \in {1} : (jpc[i] = "l110") ~> (jpc[i] = "none")
  /\ [][\A i \in Slots :
          (jpc[i] # "none" /\ jpc'[i] = "none") =>
            /\ jpc[i] \in {"l132", "l137"}
            /\ generation_status'.status \in {"done", "error"}]_vars

\* C13 witness: a started job has just written its terminal status.
C13_Witness ==
  /\ jpc[1] \in {"l130", "l136"}
  /\ generation_status.status \in {"done", "error"}
  /\ calls[1] # <<>>

\* The probe holds a call of fn.
Probed(fn) == probe.some /\ probe.val.fn = fn

\* The remote step of the probed enhance_prompt call failed: no credential,
\* or the session raised.
RemoteStepFailed ==
  ~get_gigachat_credentials(environ).ok \/ ~probe.val.remote.ok

\* C14: when the remote step fails, enhance_prompt(p, suffix) returns the
\* string "p, suffix" when suffix is non-empty and p when it is empty (a
\* string, not an exception).
C14_FallbackOnRemoteFailure ==
  (Probed("enhance_prompt") /\ RemoteStepFailed) =>
    LET p      == probe.val.simple_prompt
        suffix == probe.val.style_suffix
    IN  /\ suffix # <<>> =>
             probe.val.result = p \o <<",", " ">> \o suffix
        /\ suffix = <<>> => probe.val.result = p

\* C14 witness: the credential is there, the session raised, and the call
\* with a style returned the prompt with the suffix.
C14_Witness ==
  /\ Probed("enhance_prompt")
  /\ get_gigachat_credentials(environ).ok
  /\ probe.val.remote = Raise("connection error")
  /\ probe.val.style_suffix # <<>>
  /\ probe.val.result
       = probe.val.simple_prompt \o <<",", " ">> \o probe.val.style_suffix

\* C15: for every successful reply longer than max_length, what
\* enhance_prompt returns, without the appended style suffix, is at most
\* max_length long, ends with the ellipsis, and is cut at a word boundary
\* of the reply. (The reply is taken stripped, as line 55 leaves it.)
C15_CutWithinMaxLength ==
  (/\ Probed("enhance_prompt")
   /\ ~RemoteStepFailed
   /\ Len(Strip(probe.val.remote.val)) > probe.val.max_length) =>
    LET reply  == Strip(probe.val.remote.val)
        suffix == probe.val.style_suffix
        tail   == IF suffix # <<>> THEN <<",", " ">> \o suffix ELSE <<>>
        body   == SubSeq(probe.val.result, 1,
                         Len(probe.val.result) - Len(tail))
        kept   == SubSeq(body, 1, Len(body) - 3)
    IN  /\ Len(body) <= probe.val.max_length
        /\ Len(body) >= 3
        /\ SubSeq(body, Len(body) - 2, Len(body)) = <<".", ".", ".">>
        /\ kept = SubSeq(reply, 1, Len(kept))
        /\ Len(kept) = Len(reply) \/ reply[Len(kept) + 1] = " "

\* Candidates of the first shape: data URLs of the entries of images,
\* from a direct url or a nested image_url.url.
RECURSIVE ShapeImages(_)
ShapeImages(images) ==
  IF images = <<>> THEN <<>>
  ELSE LET img == Head(images)
           url == IF img.url.some THEN img.url
                  ELSE IF img.image_url.some THEN img.image_url.val.url
                  ELSE None
       IN  (IF IsDataImageUrl(url) THEN <<url.val>> ELSE <<>>)
             \o ShapeImages(Tail(images))

\* Candidates of the second shape: the image_url of an item of a
\* list-valued content.
ShapeContentList(content) ==
  IF content.kind = "list"
     /\ IsDataImageUrl(FirstImageUrlItem(content.items))
  THEN <<FirstImageUrlItem(content.items).val>>
  ELSE <<>>

\* Candidates of the third shape: a string content that begins with the
\* data-URI marker.
ShapeContentString(content) ==
  IF content.kind = "str" /\ IsDataImageUrl(Some(content.text))
  THEN <<content.text>>
  ELSE <<>>

\* C16: the normalizer returns the candidates of the first of the three
\* shapes (images, list content, string content) that yields any: a message
\* with only a string content beginning with the data-URI marker gives that
\* string as the sole candidate, a shape without candidates falls through
\* to the next, and the result is empty (the no-image error) only when no
\* shape yields a candidate.
C16_FirstShapeWithCandidates ==
  probe.some
    /\ probe.val.fn \in {"_extract_data_urls_from_message", "generate_image"}
  =>
    LET message == probe.val.message
        s1 == IF message.images.some
              THEN ShapeImages(message.images.val) ELSE <<>>
        s2 == ShapeContentList(message.content)
        s3 == ShapeContentString(message.content)
    IN  /\ (s1 = <<>> /\ s2 # <<>>) => probe.val.result = s2
        /\ (s1 = <<>> /\ s2 = <<>> /\ s3 # <<>>) => probe.val.result = s3
        /\ probe.val.result = <<>> => (s1 = <<>> /\ s2 = <<>> /\ s3 = <<>>)

\* C17: while the job of the latest accepted request has not got its
\* enhancement call back (its thread is not started yet, or stands at or
\* before line 115), enhanced_prompt in the record is empty.
C17_EmptyUntilEnhanced ==
  (/\ latest # 0
   /\ \/ hpc[latest] = "l95"
      \/ jpc[latest] \in {"l110", "l111", "l112", "l114"}) =>
    generation_status.enhanced_prompt = <<>>

\* Positions in the calls of slot i of the calls of fn.
CallsOf(i, fn) == {k \in DOMAIN calls[i] : calls[i][k].fn = fn}

\* Positions of the thread after its enhance_prompt call has returned.
AfterEnhance ==
  {"l117", "l118", "l119", "l122", "l123", "l124", "l126",
   "l129", "l130", "l131", "l132", "l135", "l136", "l137"}

\* Positions of the thread after its generate_image call has returned or
\* raised.
AfterGenerate ==
  {"l129", "l130", "l131", "l132", "l135", "l136", "l137"}

\* C18: a job calls enhance_prompt exactly once (none before line 115, one
\* from then on) and generate_image at most once (one from line 126 on), and
\* neither repeats its remote call; the generate_image call comes after the
\* enhance_prompt call and is given the string that call returned.
C18_OneCallPerStage ==
  \A i \in Slots :
    /\ Cardinality(CallsOf(i, "enhance_prompt"))
         = (IF jpc[i] \in AfterEnhance THEN 1 ELSE 0)
    /\ Cardinality(CallsOf(i, "generate_image"))
         = (IF jpc[i] \in AfterGenerate THEN 1 ELSE 0)
    /\ Cardinality(CallsOf(i, "giga.chat")) <= 1
    /\ Cardinality(CallsOf(i, "client.images.generate")
                     \cup CallsOf(i, "client.chat.completions.create")) <= 1
    /\ \A k \in CallsOf(i, "generate_image") :
         /\ \E j \in CallsOf(i, "enhance_prompt") : j < k
         /\ enhanced[i].some
         /\ calls[i][k].arg = enhanced[i].val

\* C18 witness: a job has made both calls, and the string it gave to
\* generate_image is not the prompt it gave to enhance_prompt.
C18_Witness ==
  \E k \in CallsOf(1, "generate_image") :
    \E j \in CallsOf(1, "enhance_prompt") :
      /\ j < k
      /\ calls[1][k].arg = enhanced[1].val
      /\ calls[1][k].arg # calls[1][j].arg

\* The environment variable that holds the key of the adapter of provider.
AdapterKeyName(provider) ==
  IF provider = "proxyapi" THEN "PROXY_API" ELSE "OPENROUTER_API_KEY"

\* The text of the error the adapter of provider raises without its key.
AdapterKeyError(provider) ==
  IF provider = "proxyapi"
  THEN "PROXY_API not set in .env"
  ELSE "OPENROUTER_API_KEY not set in .env"

\* The job of slot i uses an adapter whose key is not set.
AdapterKeyAbsent(i) ==
  /\ args[i].some
  /\ args[i].val.provider \in {"proxyapi", "openrouter"}
  /\ AdapterKeyName(args[i].val.provider) \notin environ

\* C19: a job whose adapter key is absent issues no call to the image
\* service, never reaches the writes of done, carries the missing-key error
\* into the except clause and ends with status error; a job run without the
\* GigaChat key issues no GigaChat call and goes on with the user's prompt
\* plus the style suffix as its enhanced prompt.
C19_MissingCredentialPerStage ==
  /\ [](\A i \in Slots :
          /\ AdapterKeyAbsent(i) =>
               /\ CallsOf(i, "client.images.generate") = {}
               /\ CallsOf(i, "client.chat.completions.create") = {}
               /\ jpc[i] \notin {"l129", "l130", "l131", "l132"}
               /\ generation_status.status # "done"
               /\ jpc[i] \in {"l135", "l136", "l137"} =>
                    e[i] = Some(AdapterKeyError(args[i].val.provider))
               /\ jpc[i] \in {"l136", "l137"} =>
                    generation_status.status = "error"
          /\ (args[i].some /\ "GIGACHAT_AUTH_KEY" \notin environ) =>
               /\ CallsOf(i, "giga.chat") = {}
               /\ jpc[i] \notin {"l135", "l136", "l137"} => ~e[i].some
               /\ enhanced[i].some =>
                    enhanced[i].val =
                      (IF StyleSuffix(args[i].val.style_key) # <<>>
                       THEN args[i].val.user_prompt \o <<",", " ">>
                              \o StyleSuffix(args[i].val.style_key)
                       ELSE args[i].val.user_prompt))
  /\ [][\A i \in Slots :
          (AdapterKeyAbsent(i) /\ jpc[i] # "none" /\ jpc'[i] = "none") =>
            generation_status'.status = "error"]_vars

\* C19 witness: without the GigaChat key, a job with a style has reached
\* done, its enhanced prompt being the user's prompt plus the suffix.
C19_Witness ==
  /\ "GIGACHAT_AUTH_KEY" \notin environ
  /\ args[1].some
  /\ jpc[1] = "l132"
  /\ generation_status.status = "done"
  /\ StyleSuffix(args[1].val.style_key) # <<>>
  /\ generation_status.enhanced_prompt
       = args[1].val.user_prompt \o <<",", " ">>
           \o StyleSuffix(args[1].val.style_key)

\* C20: when at least one request has been accepted, no request is being
\* handled and every thread has ended, status is done or error.
C20_QuiescentStatusIsTerminal ==
  (latest # 0 /\ \A i \in Slots : Idle(i)) =>
    generation_status.status \in {"done", "error"}

\* C20 witness: two jobs have overlapped and ended; the record is at rest
\* with status done and the error of the job that failed.
C20_Witness ==
  /\ latest # 0
  /\ \A i \in Slots : Idle(i)
  /\ generation_status.status = "done"
  /\ generation_status.error.some

\* C21: original_prompt is empty before the first accepted request and is
\* the stripped prompt of the latest accepted request while that request's
\* job runs; no step of a thread changes it, and it changes only in the
\* step that accepts a request, to the stripped prompt of that request.
C21_OriginalPromptOfLatest ==
  /\ [](latest = 0 => generation_status.original_prompt = <<>>)
  /\ []((latest # 0 /\ args[latest].some) =>
          generation_status.original_prompt = args[latest].val.user_prompt)
  /\ [][\A i \in Slots :
          ThreadStep(i) =>
            generation_status'.original_prompt
              = generation_status.original_prompt]_vars
  /\ [][generation_status'.original_prompt
          # generation_status.original_prompt =>
            \E i \in Slots :
              /\ Accepts(i)
              /\ latest' = i
              /\ generation_status'.original_prompt
                   = Strip(Get(data'[i].val.prompt, <<>>))]_vars

\* C21 witness: an earlier job with another prompt has written its
\* enhanced prompt into the record of the latest request, and
\* original_prompt is the prompt of the latest request.
C21_Witness ==
  \E i \in Slots :
    /\ latest # 0 /\ i # latest
    /\ args[i].some /\ args[latest].some
    /\ jpc[i] \in AfterEnhance \ {"l117"}
    /\ jpc[latest] \in {"none", "l110"}
    /\ args[i].val.user_prompt # args[latest].val.user_prompt
    /\ generation_status.enhanced_prompt # <<>>
    /\ generation_status.original_prompt = args[latest].val.user_prompt

====
